---- MODULE Spec2Model ----
(***************************************************************************)
(* Model of vis.py, the circle-of-fifths MIDI visualiser: the main loop    *)
(* (button events, MIDI polling, note-on / note-off handling, redraw) and  *)
(* the pure functions recognize_chord and get_scale.                       *)
(***************************************************************************)
EXTENDS Integers, Sequences, FiniteSets, TLC

VARIABLES
    pc,                  \* position in main(): "events", "poll", "for", "draw", "flip",
                         \* "done", or "error" after an uncaught exception
    running,             \* main.running
    pressed_midi_notes,  \* main.pressed_midi_notes (HeldNoteSet)
    pressed_circle_notes,\* main.pressed_circle_notes (note names)
    active_sounds,       \* keys of main.active_sounds
    channels,            \* the mixer: note |-> number of channels playing its sound
    scale_root,          \* main.scale_root (None or <<pitch class>>)
    scale_type,          \* main.scale_type
    show_scale,          \* main.show_scale
    show_note_names,     \* main.show_note_names
    active,              \* Button.active of the six buttons, by index 1..6
    pending,             \* events of the current midi_input.read(10) batch not yet handled
    chord_info,          \* main.chord_info: None or <<name, root, type>>
    scale_notes,         \* draw_circle_of_fifths.scale_notes of the last redraw
    last_on,             \* history: notes whose most recent note event was a NoteOn
    repeated,            \* history: a NoteOn has arrived for a note already held
    mark                 \* history: one remembered earlier snapshot, or None

vars == <<pc, running, pressed_midi_notes, pressed_circle_notes, active_sounds, channels,
          scale_root, scale_type, show_scale, show_note_names, active, pending,
          chord_info, scale_notes, last_on, repeated, mark>>

\* Python's None, for the optional values scale_root and chord_info: an
\* optional value is the empty tuple or a tuple holding the value
None == <<>>
\* chord_info and scale_notes before the first redraw assigns them
NotComputed == <<"NotComputed">>
NotDrawn == <<-1>>

----------------------------------------------------------------------------
(* Bounds of the model *)

\* number of distinct keys of NoteSeq the MIDI device sends
MaxNotes == 3
\* number of events one midi_input.read returns at most in the model
MaxPending == 2
\* SpecChord draws the held notes from 60..60+NoteSpan
NoteSpan == 12
\* number of keys of NoteSeq the device sends in SpecPair
PairNotes == 3

----------------------------------------------------------------------------
(* Constants of the program *)

NOTES == <<"C", "G", "D", "A", "E", "B", "F#/Gb", "C#/Db", "G#/Ab", "D#/Eb", "A#/Bb", "F">>

\* the dict with 5: 1 typed for 5: 11
MidiToCircleTypo ==
    [p \in 0..11 |->
        CASE p = 0 -> 0 [] p = 1 -> 7 [] p = 2 -> 2 [] p = 3 -> 9
          [] p = 4 -> 4 [] p = 5 -> 1 [] p = 6 -> 6 [] p = 7 -> 1
          [] p = 8 -> 8 [] p = 9 -> 3 [] p = 10 -> 10 [] p = 11 -> 5]

\* the dict MIDI_TO_CIRCLE, as a function on pitch classes
MIDI_TO_CIRCLE ==
    [p \in 0..11 |->
        CASE p = 0 -> 0 [] p = 1 -> 7 [] p = 2 -> 2 [] p = 3 -> 9
          [] p = 4 -> 4 [] p = 5 -> 11 [] p = 6 -> 6 [] p = 7 -> 1
          [] p = 8 -> 8 [] p = 9 -> 3 [] p = 10 -> 10 [] p = 11 -> 5]

MAJOR_SCALE == <<0, 2, 4, 5, 7, 9, 11>>
NATURAL_MINOR_SCALE == <<0, 2, 3, 5, 7, 8, 10>>
HARMONIC_MINOR_SCALE == <<0, 2, 3, 5, 7, 8, 11>>
PENTATONIC_SCALE == <<0, 2, 4, 7, 9>>

\* the dict CHORD_TYPES, as a sequence of <<key tuple, label>> entries
CHORD_TYPES ==
    << <<<<0, 4, 7>>, "Major">>,
       <<<<0, 3, 7>>, "Minor">>,
       <<<<0, 4, 7, 10>>, "Dominant 7th">>,
       <<<<0, 3, 7, 10>>, "Minor 7th">>,
       <<<<0, 4, 7, 11>>, "Major 7th">>,
       <<<<0, 3, 6>>, "Diminished">>,
       <<<<0, 3, 6, 9>>, "Diminished 7th">>,
       <<<<0, 4, 8>>, "Augmented">>,
       <<<<0, 2, 7>>, "Sus2">>,
       <<<<0, 5, 7>>, "Sus4">>,
       <<<<0, 4, 7, 9>>, "6th">>,
       <<<<0, 3, 7, 9>>, "Minor 6th">>,
       <<<<0, 4, 7, 10, 14>>, "9th">>,
       <<<<0, 4, 7, 10, 14, 17>>, "11th">>,
       <<<<0, 4, 7, 10, 14, 17, 21>>, "13th">> >>

\* NOTES[i] with Python's 0-based index
NoteName(i) == NOTES[i + 1]

\* NOTES[MIDI_TO_CIRCLE[note % 12]]
NoteNameOf(note) == NoteName(MIDI_TO_CIRCLE[note % 12])

----------------------------------------------------------------------------
(* recognize_chord *)

\* min(pressed_notes)
Min(S) == CHOOSE m \in S : \A n \in S : m <= n

\* sorted(...) of a generator whose values lie in 0..11: value v is repeated
\* once per note that yields it (the generator is not deduplicated)
RECURSIVE SortedFrom(_, _, _)
SortedFrom(v, pressed_notes, root) ==
    IF v > 11 THEN <<>>
    ELSE LET cnt == Cardinality({n \in pressed_notes : (n - root) % 12 = v})
         IN  [i \in 1..cnt |-> v] \o SortedFrom(v + 1, pressed_notes, root)

\* the offsets sorted without the  % 12
RECURSIVE SortedDistances(_, _)
SortedDistances(pressed_notes, root) ==
    IF pressed_notes = {} THEN <<>>
    ELSE LET m == CHOOSE x \in pressed_notes : \A y \in pressed_notes : x <= y
         IN  <<m - root>> \o SortedDistances(pressed_notes \ {m}, root)

IntervalsNoMod(pressed_notes, root) == SortedDistances(pressed_notes, root)

\* tuple(sorted((note - root) % 12 for note in pressed_notes))
Intervals(pressed_notes, root) == SortedFrom(0, pressed_notes, root)

\* CHORD_TYPES.get(intervals, "Complex")
ChordTypeOf(intervals) ==
    IF \E k \in 1..Len(CHORD_TYPES) : CHORD_TYPES[k][1] = intervals
    THEN CHORD_TYPES[CHOOSE k \in 1..Len(CHORD_TYPES) : CHORD_TYPES[k][1] = intervals][2]
    ELSE "Complex"

\* the root taken as the held note of the lowest pitch class
ChordRootLowestPitchClass(pressed_notes) ==
    CHOOSE r \in pressed_notes : \A n \in pressed_notes : r % 12 <= n % 12

\* root = min(pressed_notes)
ChordRoot(pressed_notes) == Min(pressed_notes)

\* recognize_chord with the size test off by one
RecognizeChordOffByOne(pressed_notes) ==
    IF Cardinality(pressed_notes) < 4 THEN None
    ELSE LET root == ChordRoot(pressed_notes)
             chord_type == ChordTypeOf(Intervals(pressed_notes, root))
             root_name == NoteNameOf(root)
         IN  <<root_name \o " " \o chord_type, root % 12, chord_type>>

recognize_chord(pressed_notes) ==
    IF Cardinality(pressed_notes) < 3 THEN None
    ELSE LET root == ChordRoot(pressed_notes)
             chord_type == ChordTypeOf(Intervals(pressed_notes, root))
             root_name == NoteNameOf(root)
         IN  <<root_name \o " " \o chord_type, root % 12, chord_type>>

----------------------------------------------------------------------------
(* get_scale *)

\* the comprehension without its  % 12
TransposeNoWrap(root, pattern) == [i \in 1..Len(pattern) |-> root + pattern[i]]

\* [(root + interval) % 12 for interval in pattern]
Transpose(root, pattern) == [i \in 1..Len(pattern) |-> (root + pattern[i]) % 12]

get_scale(root, type) ==
    IF type = "Major" THEN Transpose(root, MAJOR_SCALE)
    ELSE IF type = "Natural Minor" THEN Transpose(root, NATURAL_MINOR_SCALE)
    ELSE IF type = "Harmonic Minor" THEN Transpose(root, HARMONIC_MINOR_SCALE)
    ELSE IF type = "Pentatonic" THEN Transpose(root, PENTATONIC_SCALE)
    ELSE <<>>

----------------------------------------------------------------------------
(* Button and the button handling of main *)

\* Button.text of main.buttons, in order
ButtonText == <<"Toggle Scale Highlight", "Toggle Note Names", "Major Scale",
                "Natural Minor Scale", "Harmonic Minor Scale", "Pentatonic Scale">>

Buttons == 1..Len(ButtonText)

\* buttons[3:]
ScaleButtonsFromFourth == {b \in Buttons : b > 3}

\* buttons[2:]
ScaleButtons == {b \in Buttons : b > 2}

\* Python's  sub in text
Contains(text, sub) ==
    \E i \in 1..(Len(text) - Len(sub) + 1) : SubSeq(text, i, i + Len(sub) - 1) = sub

\* Python's  text.replace(sub, "")
RECURSIVE Remove(_, _)
Remove(text, sub) ==
    IF Len(text) < Len(sub) THEN text
    ELSE IF SubSeq(text, 1, Len(sub)) = sub
         THEN Remove(SubSeq(text, Len(sub) + 1, Len(text)), sub)
         ELSE SubSeq(text, 1, 1) \o Remove(SubSeq(text, 2, Len(text)), sub)

\* Button.handle_event for a left click inside the rect of button b:
\* the new value of active[b] (every button of main is a toggle)
handle_event(b) == ~active[b]

\* a left click on button b, through the  for button in buttons  loop of main
ButtonClick(b) ==
    /\ pc = "events"
    /\ LET act == [active EXCEPT ![b] = handle_event(b)]
       IN  IF ButtonText[b] = "Toggle Scale Highlight"
           THEN /\ show_scale' = act[b]
                /\ active' = act
                /\ UNCHANGED <<show_note_names, scale_type>>
           ELSE IF ButtonText[b] = "Toggle Note Names"
           THEN /\ show_note_names' = act[b]
                /\ active' = act
                /\ UNCHANGED <<show_scale, scale_type>>
           ELSE IF Contains(ButtonText[b], "Scale")
           THEN /\ scale_type' = Remove(ButtonText[b], " Scale")
                /\ active' = [x \in Buttons |->
                                IF x \in ScaleButtons /\ x # b THEN FALSE ELSE act[x]]
                /\ UNCHANGED <<show_scale, show_note_names>>
           ELSE /\ active' = act
                /\ UNCHANGED <<show_scale, show_note_names, scale_type>>
    /\ UNCHANGED <<pc, running, pressed_midi_notes, pressed_circle_notes,
                   active_sounds, channels, scale_root, pending, chord_info, scale_notes,
                   last_on, repeated, mark>>

\* a pygame.QUIT event
Quit ==
    /\ pc = "events"
    /\ running
    /\ running' = FALSE
    /\ UNCHANGED <<pc, pressed_midi_notes, pressed_circle_notes, active_sounds, channels,
                   scale_root, scale_type, show_scale, show_note_names, active,
                   pending, chord_info, scale_notes, last_on, repeated, mark>>

\* the  for event in pygame.event.get()  loop has no event left
EndEvents ==
    /\ pc = "events"
    /\ pc' = "poll"
    /\ UNCHANGED <<running, pressed_midi_notes, pressed_circle_notes, active_sounds, channels,
                   scale_root, scale_type, show_scale, show_note_names, active,
                   pending, chord_info, scale_notes, last_on, repeated, mark>>

----------------------------------------------------------------------------
(* MIDI input of main *)

\* the size argument of midi_input.read
ReadLimit == 10

\* the keys the device sends: the first MaxNotes of this list
NoteSeq == <<60, 64, 72, 67, 63, 66, 61, 68>>
EventNotes == {NoteSeq[i] : i \in 1..MaxNotes}

\* status bytes: note off, note on (channels 1 and 2), control change
StatusBytes == {128, 144, 145, 176}
Velocities == {0, 64}

\* the mask left out: the status byte compared as it is
StatusUnmasked(byte) == byte

\* event[0][0] & 0xF0 on a byte
StatusNibble(byte) == (byte \div 16) * 16

\* midi_input.poll() is false: no read this iteration
PollEmpty ==
    /\ pc = "poll"
    /\ pc' = "draw"
    /\ UNCHANGED <<running, pressed_midi_notes, pressed_circle_notes, active_sounds, channels,
                   scale_root, scale_type, show_scale, show_note_names, active,
                   pending, chord_info, scale_notes, last_on, repeated, mark>>

\* midi_input.poll() is true and read(10) returns k events; the content of
\* each event is drawn when the for loop reaches it
PollReadOver(most) ==
    /\ pc = "poll"
    /\ \E k \in 1..most :
          /\ k <= ReadLimit
          /\ pending' = k
    /\ pc' = "for"
    /\ UNCHANGED <<running, pressed_midi_notes, pressed_circle_notes, active_sounds, channels,
                   scale_root, scale_type, show_scale, show_note_names, active,
                   chord_info, scale_notes, last_on, repeated, mark>>

PollRead == PollReadOver(MaxPending)

\* the keys of note_sounds: generate_note_sounds fills range(128)
NoteSoundKeys == 0..127

\* note_sounds[note] in the Note On branch raises KeyError
RaisesKeyError(note) == note \notin active_sounds /\ note \notin NoteSoundKeys

\* note_sounds[note].play(-1): one more channel loops the sound of the note
play(mixer, note) ==
    [n \in DOMAIN mixer \cup {note} |->
        IF n \in DOMAIN mixer
        THEN (IF n = note THEN mixer[n] + 1 ELSE mixer[n])
        ELSE 1]

\* active_sounds[note].stop(): every channel playing the sound stops
stop(mixer, notes) == [n \in DOMAIN mixer \ notes |-> mixer[n]]

\* a Note On branch that plays the sound without looking at active_sounds
NoteOnAlwaysPlays(note) ==
    /\ pressed_midi_notes' = pressed_midi_notes \cup {note}
    /\ pressed_circle_notes' = pressed_circle_notes \cup {NoteNameOf(note)}
    /\ active_sounds' = IF ~RaisesKeyError(note)
                        THEN active_sounds \cup {note} ELSE active_sounds
    /\ channels' = IF ~RaisesKeyError(note)
                   THEN play(channels, note) ELSE channels
    /\ scale_root' = IF ~RaisesKeyError(note) /\ Cardinality(pressed_midi_notes') = 1
                     THEN <<note % 12>> ELSE scale_root

\* the Note On branch; after a KeyError its remaining statements are not run
NoteOn(note) ==
    /\ pressed_midi_notes' = pressed_midi_notes \cup {note}
    /\ pressed_circle_notes' = pressed_circle_notes \cup {NoteNameOf(note)}
    /\ active_sounds' = IF note \notin active_sounds /\ ~RaisesKeyError(note)
                        THEN active_sounds \cup {note} ELSE active_sounds
    /\ channels' = IF note \notin active_sounds /\ ~RaisesKeyError(note)
                   THEN play(channels, note) ELSE channels
    /\ scale_root' = IF ~RaisesKeyError(note) /\ Cardinality(pressed_midi_notes') = 1
                     THEN <<note % 12>> ELSE scale_root

\* the Note Off branch without its  scale_root = None
NoteOffKeepsRoot(note) ==
    /\ pressed_midi_notes' = pressed_midi_notes \ {note}
    /\ pressed_circle_notes' = pressed_circle_notes \ {NoteNameOf(note)}
    /\ active_sounds' = IF note \in active_sounds
                        THEN active_sounds \ {note} ELSE active_sounds
    /\ channels' = IF note \in active_sounds
                   THEN stop(channels, {note}) ELSE channels
    /\ scale_root' = scale_root

\* the Note Off branch with  scale_root = None  outside its if
NoteOffClearsRoot(note) ==
    /\ pressed_midi_notes' = pressed_midi_notes \ {note}
    /\ pressed_circle_notes' = pressed_circle_notes \ {NoteNameOf(note)}
    /\ active_sounds' = IF note \in active_sounds
                        THEN active_sounds \ {note} ELSE active_sounds
    /\ channels' = IF note \in active_sounds
                   THEN stop(channels, {note}) ELSE channels
    /\ scale_root' = None

\* the Note Off branch
NoteOff(note) ==
    /\ pressed_midi_notes' = pressed_midi_notes \ {note}
    /\ pressed_circle_notes' = pressed_circle_notes \ {NoteNameOf(note)}
    /\ active_sounds' = IF note \in active_sounds
                        THEN active_sounds \ {note} ELSE active_sounds
    /\ channels' = IF note \in active_sounds
                   THEN stop(channels, {note}) ELSE channels
    /\ scale_root' = IF Cardinality(pressed_midi_notes') = 0
                     THEN None ELSE scale_root

\* history of the input stream: the notes whose most recent note-on or
\* note-off message was a note-on with velocity > 0
LastOn(byte, note, velocity) ==
    IF byte \in 144..159 /\ velocity > 0 THEN last_on \cup {note}
    ELSE IF byte \in 128..159 THEN last_on \ {note}
    ELSE last_on

\* status == 0x90 and velocity > 0
IsNoteOn(status, velocity) == status = 144 /\ velocity > 0

\* the Note Off test without the velocity-0 Note On
IsNoteOffStatusOnly(status, velocity) == status = 128

\* status == 0x80 or (status == 0x90 and velocity == 0)
IsNoteOff(status, velocity) == status = 128 \/ (status = 144 /\ velocity = 0)

\* one iteration of  for event in midi_events, for the event
\* [[byte, note, velocity, ..], timestamp]
MidiEventOf(byte, note, velocity) ==
    /\ pc = "for"
    /\ pending > 0
    /\ LET status == StatusNibble(byte)
       IN  IF IsNoteOn(status, velocity)
           THEN NoteOn(note)
           ELSE IF IsNoteOff(status, velocity)
           THEN NoteOff(note)
           ELSE UNCHANGED <<pressed_midi_notes, pressed_circle_notes,
                            active_sounds, channels, scale_root>>
    /\ last_on' = LastOn(byte, note, velocity)
    /\ repeated' = (repeated \/ (byte \in 144..159 /\ velocity > 0
                                      /\ note \in last_on))
    /\ pending' = pending - 1
    /\ pc' = IF IsNoteOn(StatusNibble(byte), velocity) /\ RaisesKeyError(note)
             THEN "error"
             ELSE IF pending' = 0 THEN "draw" ELSE "for"
    /\ UNCHANGED <<running, scale_type, show_scale, show_note_names, active,
                   chord_info, scale_notes, mark>>

\* one iteration of  for event in midi_events, for any event of the device
MidiEventOver(notes, bytes) ==
    \E byte \in bytes, note \in notes, velocity \in Velocities :
        MidiEventOf(byte, note, velocity)

MidiEvent == MidiEventOver(EventNotes, StatusBytes)

----------------------------------------------------------------------------
(* redraw *)

\* scale_notes of draw_circle_of_fifths(.., root, type, ..)
DrawScaleNotes(root, type) == IF root # None THEN get_scale(root[1], type) ELSE <<>>

\* the scale_root argument main passes to draw_circle_of_fifths
ShownRoot == IF show_scale THEN scale_root ELSE None

\* the colour of the dot at circle position i:
\* highlight_color if note in pressed_notes else SCALE_COLOR if i in scale_notes else GRAY
color(i, pressed_notes, notes_of_scale) ==
    IF NoteName(i) \in pressed_notes THEN "highlight_color"
    ELSE IF \E k \in 1..Len(notes_of_scale) : notes_of_scale[k] = i THEN "SCALE_COLOR"
    ELSE "GRAY"

\* a redraw that computes scale_notes only when a scale root is passed
DrawKeepsOldScale ==
    /\ pc = "draw"
    /\ chord_info' = recognize_chord(pressed_midi_notes)
    /\ scale_notes' = IF ShownRoot # None
                      THEN get_scale(ShownRoot[1], scale_type) ELSE scale_notes
    /\ pc' = "flip"
    /\ UNCHANGED <<running, pressed_midi_notes, pressed_circle_notes, active_sounds, channels,
                   scale_root, scale_type, show_scale, show_note_names, active,
                   pending, last_on, repeated, mark>>

\* chord_info = recognize_chord(..); draw_circle_of_fifths(..); draw_sidebar(..)
Draw ==
    /\ pc = "draw"
    /\ chord_info' = recognize_chord(pressed_midi_notes)
    /\ scale_notes' = DrawScaleNotes(ShownRoot, scale_type)
    /\ pc' = "flip"
    /\ UNCHANGED <<running, pressed_midi_notes, pressed_circle_notes, active_sounds, channels,
                   scale_root, scale_type, show_scale, show_note_names, active,
                   pending, last_on, repeated, mark>>

\* pygame.display.flip() and the  while running  test; after the loop every
\* sound of active_sounds is stopped and the dict is left as it is
Flip ==
    /\ pc = "flip"
    /\ pc' = IF running THEN "events" ELSE "done"
    /\ channels' = IF running THEN channels ELSE stop(channels, active_sounds)
    /\ UNCHANGED <<running, pressed_midi_notes, pressed_circle_notes, active_sounds,
                   scale_root, scale_type, show_scale, show_note_names, active,
                   pending, chord_info, scale_notes, last_on, repeated, mark>>

----------------------------------------------------------------------------
(* the program *)

Init ==
    /\ pc = "events"
    /\ running = TRUE
    /\ pressed_midi_notes = {}
    /\ pressed_circle_notes = {}
    /\ active_sounds = {}
    /\ channels = <<>>
    /\ scale_root = None
    /\ scale_type = "Major"
    /\ show_scale = FALSE
    /\ show_note_names = FALSE
    /\ active = [b \in Buttons |-> FALSE]
    /\ pending = 0
    /\ chord_info = NotComputed
    /\ scale_notes = NotDrawn
    /\ last_on = {}
    /\ repeated = FALSE
    /\ mark = None

Click == \E b \in Buttons : ButtonClick(b)

Next ==
    \/ Click
    \/ Quit
    \/ EndEvents
    \/ PollEmpty
    \/ PollRead
    \/ MidiEvent
    \/ Draw
    \/ Flip

Spec == Init /\ [][Next]_vars

----------------------------------------------------------------------------
(* recognize_chord on its own: any held set drawn from one octave and the  *)
(* octave above its lowest key, in a state main can be in before a redraw  *)

ChordNotes == 60..(60 + NoteSpan)

InitChord ==
    /\ pc = "draw"
    /\ running = TRUE
    /\ pressed_midi_notes \in SUBSET ChordNotes
    /\ pressed_circle_notes = {NoteNameOf(n) : n \in pressed_midi_notes}
    /\ active_sounds = pressed_midi_notes
    /\ channels = [n \in active_sounds |-> 1]
    /\ scale_root = IF pressed_midi_notes = {} THEN None
                    ELSE <<Min(pressed_midi_notes) % 12>>
    /\ scale_type = "Major"
    /\ show_scale = FALSE
    /\ show_note_names = FALSE
    /\ active = [b \in Buttons |-> FALSE]
    /\ pending = 0
    /\ chord_info = NotComputed
    /\ scale_notes = NotDrawn
    /\ last_on = pressed_midi_notes
    /\ repeated = FALSE
    /\ mark = None

SpecChord == InitChord /\ [][Draw]_vars

----------------------------------------------------------------------------
(* recognize_chord on the keys of the table shapes: any held set drawn     *)
(* from the keys that lie an offset of some table shape above middle C     *)

ExtendedNotes ==
    UNION {{60 + CHORD_TYPES[k][1][i] : i \in 1..Len(CHORD_TYPES[k][1])} :
              k \in 1..Len(CHORD_TYPES)}

InitExtended ==
    /\ pc = "draw"
    /\ running = TRUE
    /\ pressed_midi_notes \in SUBSET ExtendedNotes
    /\ pressed_circle_notes = {NoteNameOf(n) : n \in pressed_midi_notes}
    /\ active_sounds = pressed_midi_notes
    /\ channels = [n \in active_sounds |-> 1]
    /\ scale_root = IF pressed_midi_notes = {} THEN None
                    ELSE <<Min(pressed_midi_notes) % 12>>
    /\ scale_type = "Major"
    /\ show_scale = FALSE
    /\ show_note_names = FALSE
    /\ active = [b \in Buttons |-> FALSE]
    /\ pending = 0
    /\ chord_info = NotComputed
    /\ scale_notes = NotDrawn
    /\ last_on = pressed_midi_notes
    /\ repeated = FALSE
    /\ mark = None

SpecExtended == InitExtended /\ [][Draw]_vars

----------------------------------------------------------------------------
(* the circle mapping on every MIDI key: the first event of the first      *)
(* read of main, for any key 0..127                                        *)

MidiNotes == 0..127

InitCircle ==
    /\ pc = "for"
    /\ running = TRUE
    /\ pressed_midi_notes = {}
    /\ pressed_circle_notes = {}
    /\ active_sounds = {}
    /\ channels = <<>>
    /\ scale_root = None
    /\ scale_type = "Major"
    /\ show_scale = FALSE
    /\ show_note_names = FALSE
    /\ active = [b \in Buttons |-> FALSE]
    /\ pending = 1
    /\ chord_info = NotComputed
    /\ scale_notes = NotDrawn
    /\ last_on = {}
    /\ repeated = FALSE
    /\ mark = None

MidiEventCircle == MidiEventOver(MidiNotes, {144})

NextCircle ==
    \/ MidiEventCircle
    \/ Draw

SpecCircle == InitCircle /\ [][NextCircle]_vars

----------------------------------------------------------------------------
(* get_scale on its own: any root and any name, the four of the buttons    *)
(* and names no button produces                                            *)

ScaleNames == {"Major", "Natural Minor", "Harmonic Minor", "Pentatonic"}
OtherNames == {"Dorian", "Major Scale", "major", ""}

\* scale_notes = get_scale(scale_root, scale_type)
CallGetScale ==
    /\ pc = "call"
    /\ scale_notes' = get_scale(scale_root[1], scale_type)
    /\ pc' = "return"
    /\ UNCHANGED <<running, pressed_midi_notes, pressed_circle_notes, active_sounds, channels,
                   scale_root, scale_type, show_scale, show_note_names, active,
                   pending, chord_info, last_on, repeated, mark>>

InitScale ==
    /\ pc = "call"
    /\ running = TRUE
    /\ pressed_midi_notes = {}
    /\ pressed_circle_notes = {}
    /\ active_sounds = {}
    /\ channels = <<>>
    /\ scale_root \in {<<p>> : p \in 0..11}
    /\ scale_type \in ScaleNames \cup OtherNames
    /\ show_scale = FALSE
    /\ show_note_names = FALSE
    /\ active = [b \in Buttons |-> FALSE]
    /\ pending = 0
    /\ chord_info = NotComputed
    /\ scale_notes = NotDrawn
    /\ last_on = {}
    /\ repeated = FALSE
    /\ mark = None

SpecScale == InitScale /\ [][CallGetScale]_vars

----------------------------------------------------------------------------
(* two histories: the program with one earlier redraw remembered in mark   *)

\* what a redraw hands to the renderer: chord, scale root, scale members
Snapshot == <<chord_info, ShownRoot, {scale_notes[i] : i \in 1..Len(scale_notes)}>>

\* pygame.display.flip() of one redraw, whose state and snapshot are
\* remembered; SpecPair has no Quit, so the loop goes on
Remember ==
    /\ pc = "flip"
    /\ running
    /\ mark = None
    /\ mark' = <<pressed_midi_notes, scale_type, show_scale, scale_root, Snapshot>>
    /\ pc' = "events"
    /\ UNCHANGED <<running, pressed_midi_notes, pressed_circle_notes,
                   active_sounds, channels, scale_root, scale_type, show_scale,
                   show_note_names, active, pending, chord_info, scale_notes,
                   last_on, repeated>>

PairEventNotes == {NoteSeq[i] : i \in 1..PairNotes}
PairButtons == {1, 4}
PairStatusBytes == {128, 144}

\* in SpecPair every read returns one event: a redraw follows each event
PollReadPair == PollReadOver(1)
MidiEventPair ==
    \E byte \in PairStatusBytes, note \in PairEventNotes : MidiEventOf(byte, note, 64)
ClickPair == \E b \in PairButtons : ButtonClick(b)

NextPair ==
    \/ ClickPair
    \/ EndEvents
    \/ PollEmpty
    \/ PollReadPair
    \/ MidiEventPair
    \/ Draw
    \/ Flip
    \/ Remember

SpecPair == Init /\ [][NextPair]_vars

----------------------------------------------------------------------------
(* note numbers outside 0..127: the program fed events whose note byte is  *)
(* 128, next to the keys 60 and 68 (68 and 128 share a pitch class)        *)

RangeNotes == {60, 68, 128}

MidiEventRange == MidiEventOver(RangeNotes, PairStatusBytes)

NextRange ==
    \/ EndEvents
    \/ PollEmpty
    \/ PollReadPair
    \/ MidiEventRange
    \/ Draw
    \/ Flip

SpecRange == Init /\ [][NextRange]_vars

----------------------------------------------------------------------------
(* Properties *)

\* the lowest held key and the offsets of the held keys from it
Lowest(S) == CHOOSE r \in S : \A n \in S : r <= n
OffsetSet(S) == {(n - Lowest(S)) % 12 : n \in S}

\* the elements of a set of integers in increasing order
RECURSIVE SortedTuple(_)
SortedTuple(S) ==
    IF S = {} THEN <<>>
    ELSE LET m == CHOOSE x \in S : \A y \in S : x <= y
         IN  <<m>> \o SortedTuple(S \ {m})

\* the set of the members of a tuple
Members(t) == {t[i] : i \in 1..Len(t)}

\* table entry k is the shape of S: as many keys as offsets, and the same offsets
ShapeIs(S, k) ==
    /\ Cardinality(S) = Len(CHORD_TYPES[k][1])
    /\ OffsetSet(S) = Members(CHORD_TYPES[k][1])

\* C1: while notes are held the scale root stays what the first note of the
\* chord made it: the note that ends an empty set sets the root to its pitch
\* class, and no step between two non-empty sets changes the root
C1_RootFixedWhileHeld ==
    [][ /\ (pressed_midi_notes = {} /\ pressed_midi_notes' # {})
            => \E n \in pressed_midi_notes' :
                  pressed_midi_notes' = {n} /\ scale_root' = <<n % 12>>
        /\ (pressed_midi_notes # {} /\ pressed_midi_notes' # {})
            => scale_root' = scale_root ]_vars

\* C2: the chord type of three or more held notes is the table entry of the
\* sorted tuple of their distinct offsets from the lowest note
C2_DeduplicatedLookup ==
    (pc = "flip" /\ Cardinality(pressed_midi_notes) >= 3)
        => /\ Len(chord_info) = 3
           /\ chord_info[3] = ChordTypeOf(SortedTuple(OffsetSet(pressed_midi_notes)))

\* C3: every step that changes the held set is followed at once by the
\* recomputation of the chord, never by another note event
C3_RecomputedAfterEveryTransition ==
    [][ pressed_midi_notes' # pressed_midi_notes => pc' = "draw" ]_vars

\* C4: the pressed names are exactly the names of the held notes
C4_NamesOfHeldNotes ==
    pressed_circle_notes = {NoteName(MIDI_TO_CIRCLE[n % 12]) : n \in pressed_midi_notes}

\* C5 as stated: two redraws with the same held set and the same scale type
\* (and the same scale-highlight toggle) hand out the same snapshot, here
\* for the histories in which no key is pressed again while it is held
C5_FunctionOfHeldSet ==
    (/\ pc = "flip"
     /\ ~repeated
     /\ mark # None
     /\ mark[1] = pressed_midi_notes
     /\ mark[2] = scale_type
     /\ mark[3] = show_scale)
        => mark[5] = Snapshot

\* C5 amended: two redraws with the same held set, the same scale-root
\* candidate, the same scale type and the same scale-highlight toggle hand
\* out the same chord, the same scale root and the same scale members
C5_FunctionOfHeldSetAndRoot ==
    (/\ pc = "flip"
     /\ mark # None
     /\ mark[1] = pressed_midi_notes
     /\ mark[2] = scale_type
     /\ mark[3] = show_scale
     /\ mark[4] = scale_root)
        => mark[5] = Snapshot

\* a later redraw of the same three held keys with the scale shown as the
\* remembered one, in a history with a NoteOn for a held key
C5_Witness ==
    /\ pc = "flip"
    /\ mark # None
    /\ mark[1] = pressed_midi_notes
    /\ mark[2] = scale_type
    /\ mark[3] = show_scale
    /\ mark[4] = scale_root
    /\ show_scale
    /\ Cardinality(pressed_midi_notes) = 3
    /\ mark[5] = Snapshot
    /\ Len(chord_info) = 3
    /\ scale_type # "Major"
    /\ repeated

\* C6: get_scale never returns an empty member list for a name that is not
\* one of the four scale names
C6_UnknownNameNotEmpty ==
    (pc = "return" /\ scale_type \notin ScaleNames) => scale_notes # <<>>

\* C7: the result is None exactly for fewer than 3 held notes; for 3 or more
\* it is a chord rooted at the pitch class of the lowest note whose type is
\* the entry of the table shape the held notes have, or "Complex" when they
\* have none
C7_NoneIffFewerThanThree ==
    pc = "flip" =>
        /\ (chord_info = None) <=> (Cardinality(pressed_midi_notes) < 3)
        /\ Cardinality(pressed_midi_notes) >= 3 =>
              /\ Len(chord_info) = 3
              /\ chord_info[2] = Lowest(pressed_midi_notes) % 12
              /\ \A k \in 1..Len(CHORD_TYPES) :
                    ShapeIs(pressed_midi_notes, k) => chord_info[3] = CHORD_TYPES[k][2]
              /\ (\A k \in 1..Len(CHORD_TYPES) : ~ShapeIs(pressed_midi_notes, k))
                    => chord_info[3] = "Complex"

\* three or more held notes of no table shape give "Complex", not None
C7_Witness ==
    /\ pc = "flip"
    /\ Cardinality(pressed_midi_notes) >= 3
    /\ Len(chord_info) = 3
    /\ chord_info[3] = "Complex"
    /\ chord_info[2] = 1

\* what C8 says of three or more held notes, but for the examples
C8_General ==
    Cardinality(pressed_midi_notes) >= 3 =>
        /\ Len(chord_info) = 3
        /\ chord_info[2] = Lowest(pressed_midi_notes) % 12
        /\ chord_info[1]
             = NOTES[MIDI_TO_CIRCLE[Lowest(pressed_midi_notes) % 12] + 1]
                 \o " " \o chord_info[3]
        /\ \A k \in 1..Len(CHORD_TYPES) :
              ShapeIs(pressed_midi_notes, k) => chord_info[3] = CHORD_TYPES[k][2]
        /\ pressed_midi_notes = {60, 64, 67} => chord_info = <<"C Major", 0, "Major">>
        /\ pressed_midi_notes = {60, 63, 66}
              => chord_info = <<"C Diminished", 0, "Diminished">>
        /\ pressed_midi_notes = {64, 67, 72} => chord_info[2] = 4

\* C8 as stated: the root is the lowest MIDI note, the label is
\* "{rootName} {chordType}", and {61,64,68} gives root 1 and "C# Minor"
C8_LowestNoteRoot ==
    pc = "flip" =>
        /\ C8_General
        /\ pressed_midi_notes = {61, 64, 68}
              => (chord_info[2] = 1 /\ chord_info[1] = "C# Minor")

\* C8 amended: as stated, but {61,64,68} gives root 1 and "C#/Db Minor"
C8_LowestNoteRootEnharmonic ==
    pc = "flip" =>
        /\ C8_General
        /\ pressed_midi_notes = {61, 64, 68}
              => (chord_info[2] = 1 /\ chord_info[1] = "C#/Db Minor")

\* the inversion E G C of C major is named by its lowest note E
C8_Witness ==
    /\ pc = "flip"
    /\ pressed_midi_notes = {64, 67, 72}
    /\ chord_info = <<"E Complex", 4, "Complex">>

\* C9: the scale root is None exactly when no note is held
C9_RootNoneIffEmpty ==
    (scale_root = None) <=> (pressed_midi_notes = {})

\* a scale was drawn from a held note, and every note has been released
C9_Witness ==
    /\ pc = "draw"
    /\ Len(scale_notes) = 7
    /\ pressed_midi_notes = {}
    /\ scale_root = None

\* C10: the held set is the set of notes whose most recent note event was a
\* note-on with velocity > 0
C10_HeldIsLastOn ==
    pressed_midi_notes = last_on

\* a chord was drawn, a button clicked and two notes of the chord released
C10_Witness ==
    /\ Len(chord_info) = 3
    /\ Cardinality(pressed_midi_notes) = 1
    /\ pressed_midi_notes = last_on
    /\ active[1]
    /\ scale_type = "Pentatonic"
    /\ pc = "draw"


\* C11: from every state, a 0x90 message with velocity 0 and a 0x80 message
\* for the same note lead to the same next state
C11_VelocityZeroIsNoteOff ==
    [][ \A n \in RangeNotes, v \in Velocities :
            MidiEventOf(144, n, 0) <=> MidiEventOf(128, n, v) ]_vars

\* a 0x90 message with velocity 0 is about to release the last held note
C11_Witness ==
    /\ pressed_midi_notes = {68}
    /\ scale_root = <<0>>
    /\ ENABLED (/\ MidiEventOf(144, 68, 0)
                /\ pressed_midi_notes' = {}
                /\ scale_root' = None)

\* C12: a NoteOff for a note that is not held raises no error and changes
\* neither the held set nor the scale root
C12_NoteOffNotHeld ==
    [][ \A n \in RangeNotes, v \in Velocities :
            (n \notin pressed_midi_notes /\ MidiEventOf(128, n, v))
                => (pressed_midi_notes' = pressed_midi_notes
                    /\ scale_root' = scale_root
                    /\ pc' # "error") ]_vars

\* a NoteOff for 68 is about to arrive while only 60 is held
C12_Witness ==
    /\ pressed_midi_notes = {60}
    /\ scale_root = <<0>>
    /\ ENABLED (/\ MidiEventOf(128, 68, 64)
                /\ pressed_midi_notes' = {60}
                /\ scale_root' = <<0>>
                /\ pc' # "error")


\* the offsets of the four scale patterns, as the claim lists them
PatternOf(name) ==
    CASE name = "Major" -> {0, 2, 4, 5, 7, 9, 11}
      [] name = "Natural Minor" -> {0, 2, 3, 5, 7, 8, 10}
      [] name = "Harmonic Minor" -> {0, 2, 3, 5, 7, 8, 11}
      [] name = "Pentatonic" -> {0, 2, 4, 7, 9}

\* C13: for each of the four scale names get_scale returns exactly the pitch
\* classes (root + offset) mod 12 of the offsets of its pattern, once each
C13_ScaleMembers ==
    (pc = "return" /\ scale_type \in ScaleNames) =>
        /\ Members(scale_notes)
             = {(scale_root[1] + o) % 12 : o \in PatternOf(scale_type)}
        /\ Len(scale_notes) = Cardinality(PatternOf(scale_type))
        /\ (scale_root = <<0>> /\ scale_type = "Major")
              => Members(scale_notes) = {0, 2, 4, 5, 7, 9, 11}
        /\ (scale_root = <<2>> /\ scale_type = "Major")
              => Members(scale_notes) = {2, 4, 6, 7, 9, 11, 1}

\* get_scale(2, "Major") has returned D E F# G A B C#
C13_Witness ==
    /\ pc = "return"
    /\ scale_root = <<2>>
    /\ scale_type = "Major"
    /\ scale_notes = <<2, 4, 6, 7, 9, 11, 1>>


\* C14: recognize_chord never returns the type "9th", "11th" or "13th", and
\* every offset it looks up lies in 0..11
C14_NoExtendedChord ==
    pc = "flip" =>
        /\ Len(chord_info) = 3 => chord_info[3] \notin {"9th", "11th", "13th"}
        /\ pressed_midi_notes # {} =>
              Members(Intervals(pressed_midi_notes, Min(pressed_midi_notes)))
                  \subseteq 0..11

\* the keys of the 9th shape above middle C are held and give "Complex"
C14_Witness ==
    /\ pc = "flip"
    /\ pressed_midi_notes = {60, 64, 67, 70, 74}
    /\ chord_info = <<"C Complex", 0, "Complex">>


\* C15: MIDI_TO_CIRCLE is defined on every pitch class, its values lie in
\* 0..11 and distinct pitch classes have distinct circle indices, so the
\* name of a pressed key belongs to no other pitch class
C15_CircleBijection ==
    /\ DOMAIN MIDI_TO_CIRCLE = 0..11
    /\ \A p \in 0..11 : MIDI_TO_CIRCLE[p] \in 0..11
    /\ \A p, q \in 0..11 : p # q => MIDI_TO_CIRCLE[p] # MIDI_TO_CIRCLE[q]
    /\ \A n \in pressed_midi_notes : \A p \in 0..11 :
          NOTES[MIDI_TO_CIRCLE[p] + 1] \in pressed_circle_notes => p = n % 12

\* the highest key, a G, is pressed and mapped to circle index 1
C15_Witness ==
    /\ pressed_midi_notes = {127}
    /\ pressed_circle_notes = {"G"}


\* C16: a note event whose note number is outside 0..127 leaves the held
\* set, the pressed names and the scale root as they were
C16_OutOfRangeRejected ==
    [][ \A n \in RangeNotes \ MidiNotes, b \in PairStatusBytes, v \in Velocities :
            MidiEventOf(b, n, v)
                => /\ pressed_midi_notes' = pressed_midi_notes
                   /\ pressed_circle_notes' = pressed_circle_notes
                   /\ scale_root' = scale_root ]_vars


\* C17: after a redraw the dot at position MIDI_TO_CIRCLE[p] of a pitch class
\* p that is not pressed has the scale colour iff p is a note of the scale
\* of the shown root and scale type
C17_ScalePositions ==
    (pc = "flip" /\ ShownRoot # None)
        => \A p \in 0..11 :
              LET i == MIDI_TO_CIRCLE[p]
              IN NoteName(i) \notin pressed_circle_notes
                    => (color(i, pressed_circle_notes, scale_notes) = "SCALE_COLOR"
                            <=> p \in Members(get_scale(ShownRoot[1], scale_type)))


\* C18: the keys of active_sounds are the held notes in every state, and
\* while the loop runs each held note has exactly one playing sound, also
\* after a repeated NoteOn for it
C18_SoundsOfHeldNotes ==
    /\ active_sounds = pressed_midi_notes
    /\ pc # "done"
        => /\ DOMAIN channels = active_sounds
           /\ \A n \in DOMAIN channels : channels[n] = 1

C18_Witness ==
    /\ repeated
    /\ pc = "for"
    /\ pressed_midi_notes = {60, 64}
    /\ active_sounds = {60, 64}
    /\ channels[64] = 1


\* the buttons that carry the name of a scale type
ScaleTypeButtons == {b \in Buttons : \E n \in ScaleNames : ButtonText[b] = n \o " Scale"}

C19_OneScaleType ==
    /\ scale_type \in {"Major", "Natural Minor", "Harmonic Minor", "Pentatonic"}
    /\ Cardinality({b \in ScaleTypeButtons : active[b]}) <= 1
    /\ \A b \in ScaleTypeButtons : active[b] => ButtonText[b] = scale_type \o " Scale"

C19_TogglesKeepScaleType ==
    \A b \in Buttons \ ScaleTypeButtons :
        ButtonClick(b)
            => /\ scale_type' = scale_type
               /\ \A x \in ScaleTypeButtons : active'[x] = active[x]

\* C19: at most one of the four scale-type buttons is active, scale_type is
\* one of the four scale names and is the scale of the active scale-type
\* button if there is one; a click on one of the two toggle buttons changes
\* neither scale_type nor a scale-type button
C19_ScaleTypeButtons == []C19_OneScaleType /\ [][C19_TogglesKeepScaleType]_vars

C19_Witness ==
    /\ active = <<TRUE, TRUE, FALSE, TRUE, FALSE, FALSE>>
    /\ scale_type = "Natural Minor"
    /\ show_scale /\ show_note_names
    /\ ENABLED (ButtonClick(1) /\ ~show_scale' /\ active'[4])

====
